---- MODULE Spec2Model ----
(***************************************************************************)
(* A model of local_cache_tool.py: the CopyThread worker that mirrors      *)
(* source folders under a destination root and renames them, the GUI       *)
(* handlers that start workers, the settings temp file, and the two pure   *)
(* formatters format_size and format_seconds.                              *)
(*                                                                         *)
(* A file name is the sequence of its character codes, a path the sequence *)
(* of its parts, so that the '*.*' match and the ordering used by sorted() *)
(* are computed on the names themselves.                                   *)
(***************************************************************************)
EXTENDS Integers, Sequences, FiniteSets, TLC

VARIABLES fs, fs0, clock, threads, copy_thread, signals, size_label,
          list_widget, source_edit, destination_edit,
          app, temp_file, read_result,
          size_bytes, size_text

vars == <<fs, fs0, clock, threads, copy_thread, signals, size_label,
          list_widget, source_edit, destination_edit,
          app, temp_file, read_result, size_bytes, size_text>>

----------------------------------------------------------------------------
(* Bounds of the model *)

\* greatest number of entries in the list of source folders
MaxFolders == 2
\* greatest value of the wall clock, in seconds
MaxClock == 3
\* greatest advance of the wall clock between two readings of it
MaxTick == 1
\* greatest number of CopyThread objects created by Start clicks
MaxWorkers == 2
\* greatest byte count given to format_size
MaxBytes == 2100

----------------------------------------------------------------------------
(* Names and paths *)

Dot == 46
Underscore == 95

nL == <<76>>
nD == <<68>>
nA == <<65>>
nB == <<66>>
nC == <<67>>
nV1 == <<118, 46, 49>>
n_ax == <<97, 46, 120>>
n_bx == <<98, 46, 120>>
n_cx == <<99, 46, 120>>
n_dx == <<100, 46, 120>>
n_n == <<110>>

pL == <<nL>>
pD == <<nD>>
pA == <<nL, nA>>
pAB == <<nL, nA, nB>>
pAV == <<nL, nA, nV1>>
pC == <<nL, nC>>
p_C == <<nL, <<Underscore>> \o nC>>

\* a sequence s starts with the sequence r
IsPrefix(r, s) == Len(r) <= Len(s) /\ SubSeq(s, 1, Len(r)) = r

\* pathlib: path.name and path.parent
Name(p) == p[Len(p)]
Parent(p) == SubSeq(p, 1, Len(p) - 1)

\* str.__lt__ on two names: lexicographic on the character codes
RECURSIVE StrLess(_, _)
StrLess(a, b) ==
  IF b = <<>> THEN FALSE
  ELSE IF a = <<>> THEN TRUE
  ELSE IF a[1] # b[1] THEN a[1] < b[1]
  ELSE StrLess(Tail(a), Tail(b))

\* PurePath.__lt__: lexicographic on the parts
RECURSIVE PathLess(_, _)
PathLess(p, q) ==
  IF q = <<>> THEN FALSE
  ELSE IF p = <<>> THEN TRUE
  ELSE IF p[1] # q[1] THEN StrLess(p[1], q[1])
  ELSE PathLess(Tail(p), Tail(q))

\* the paths in descending order: what the enumeration would be with the
\* comparison reversed
RECURSIVE Sorted_descending(_)
Sorted_descending(S) ==
  IF S = {} THEN <<>>
  ELSE LET m == CHOOSE x \in S : \A y \in S \ {x} : PathLess(y, x)
       IN  <<m>> \o Sorted_descending(S \ {m})

\* the order in which sorted() of line 110 yields a set of paths
RECURSIVE Sorted(_)
Sorted(S) ==
  IF S = {} THEN <<>>
  ELSE LET m == CHOOSE x \in S : \A y \in S \ {x} : PathLess(x, y)
       IN  <<m>> \o Sorted(S \ {m})

\* the glob pattern '*.*' matches a name that holds a dot
MatchesPattern(name) == \E j \in 1..Len(name) : name[j] = Dot

----------------------------------------------------------------------------
(* The filesystem: a function from the existing paths to what is there *)

DirNode == [kind |-> "dir", data |-> 0]
FileNode(c) == [kind |-> "file", data |-> c]

Exists(f, p) == p \in DOMAIN f
IsDir(f, p) == Exists(f, p) /\ f[p].kind = "dir"
IsFile(f, p) == Exists(f, p) /\ f[p].kind = "file"

ProperPrefixes(p) == {SubSeq(p, 1, j) : j \in 1..(Len(p) - 1)}
Descendants(f, p) == {q \in DOMAIN f : IsPrefix(p, q) /\ q # p}

\* Path.rglob('*.*'): every entry below p, at any depth, whose name matches;
\* nothing when p is no directory
Rglob(f, p) ==
  IF IsDir(f, p) THEN {q \in Descendants(f, p) : MatchesPattern(Name(q))} ELSE {}

\* PurePath.relative_to: the parts below root, or ValueError
IsRelativeTo(p, root) == IsPrefix(root, p)
RelativeTo(p, root) == SubSeq(p, Len(root) + 1, Len(p))

\* Path.mkdir(parents=True, exist_ok=True)
MkdirError(f, p) ==
  IF IsFile(f, p) THEN "FileExistsError"
  ELSE IF \E a \in ProperPrefixes(p) : IsFile(f, a) THEN "NotADirectoryError"
  ELSE "none"
Mkdir(f, p) ==
  LET new == {a \in ProperPrefixes(p) \cup {p} : ~Exists(f, a)}
  IN  [q \in DOMAIN f \cup new |-> IF q \in DOMAIN f THEN f[q] ELSE DirNode]

\* shutil.copy2(src, dst): into dst, or into dst/src.name when dst is a directory
CopyTarget(f, src, dst) == IF IsDir(f, dst) THEN dst \o <<Name(src)>> ELSE dst
Copy2Error(f, src, dst) ==
  LET t == CopyTarget(f, src, dst) IN
  IF ~Exists(f, src) THEN "FileNotFoundError"
  ELSE IF t = src THEN "SameFileError"
  ELSE IF IsDir(f, src) THEN "IsADirectoryError"
  ELSE IF IsDir(f, t) THEN "IsADirectoryError"
  ELSE IF \E a \in ProperPrefixes(t) : IsFile(f, a) THEN "NotADirectoryError"
  ELSE IF ~IsDir(f, Parent(t)) THEN "FileNotFoundError"
  ELSE "none"
Copy2(f, src, dst) ==
  LET t == CopyTarget(f, src, dst)
  IN  [q \in DOMAIN f \cup {t} |-> IF q = t THEN f[src] ELSE f[q]]

\* Path.rename(target): the entry and all below it move to target
RenameTarget(p) == Parent(p) \o << <<Underscore>> \o Name(p) >>
RenameError(f, src, dst, replace) ==
  IF ~Exists(f, src) THEN "FileNotFoundError"
  ELSE IF ~Exists(f, dst) THEN "none"
  ELSE IF replace /\ IsDir(f, src) /\ IsDir(f, dst) /\ Descendants(f, dst) = {}
       THEN "none"
  ELSE "FileExistsError"
Rename(f, src, dst) ==
  LET moved == {q \in DOMAIN f : IsPrefix(src, q)}
      to(q) == dst \o SubSeq(q, Len(src) + 1, Len(q))
      kept == (DOMAIN f \ moved) \ {dst}
  IN  [q \in kept \cup {to(m) : m \in moved} |->
         IF q \in kept THEN f[q]
         ELSE f[CHOOSE m \in moved : to(m) = q]]

\* the folders a user can drop on the list
SourceDirs == {pA, pAB, pC}

\* the sequences over S of length at most n
SeqsUpTo(S, n) == UNION {[1..m -> S] : m \in 0..n}

\* no temp file, nothing read yet, nothing formatted yet
NoFile == [exists |-> FALSE, text |-> <<>>]
NoRead == [status |-> "none", value |-> {}, file |-> NoFile]
NoText == [status |-> "none", tenths |-> 0, decimals |-> 0, unit |-> ""]

----------------------------------------------------------------------------
(* Wall clock and arithmetic *)

\* time.time(): the clock does not run backwards between two readings
Now == {c \in clock..(clock + MaxTick) : c <= MaxClock}

\* int(a / b) for b > 0: Python truncates towards zero
Trunc(a, b) == IF a >= 0 THEN a \div b ELSE -((-a) \div b)

\* format_seconds (lines 28-33): the three fields of the HH:MM:SS string, by
\* floor division and modulo as Python computes them
format_seconds(seconds) ==
  [hours |-> seconds \div 3600,
   minutes |-> (seconds % 3600) \div 60,
   seconds |-> seconds % 60]

\* copied_files is counted in units of 0.0001 file (line 94)
CopiedUnit == 10000
CopiedStart == 1

\* transfer_percentage as a fraction num/den
\* line 95: copied_files / total_files
FractionDone(copied, total) == [num |-> copied, den |-> CopiedUnit * total]
\* line 136: (copied_files / total_files) * 100
PercentDone(copied, total) == [num |-> copied * 100, den |-> CopiedUnit * total]

\* lines 123-125, then int(time_left) of line 128
TimeLeft(time_spent, tp) == Trunc(time_spent * tp.den - time_spent * tp.num, tp.num)

----------------------------------------------------------------------------
(* CopyThread *)

Workers == 1..MaxWorkers

NoThread ==
  [pc |-> "none", source_paths |-> <<>>, source_root |-> <<>>,
   destination_root |-> <<>>, start_time |-> 0, total_files |-> 0,
   copied_files |-> 0, transfer_percentage |-> [num |-> 0, den |-> 1],
   k |-> 0, files |-> <<>>, i |-> 0, current_time |-> 0, f |-> <<>>, d |-> <<>>,
   time_left |-> 0, eta |-> format_seconds(0), err |-> "none", line |-> 0,
   copies |-> <<>>, renames |-> <<>>, emitted |-> <<>>, faulted |-> FALSE]

\* CopyThread.__init__ (lines 85-90) followed by QThread.start()
NewThread(paths, sroot, droot, now) ==
  [NoThread EXCEPT !.pc = "start", !.source_paths = paths, !.source_root = sroot,
                   !.destination_root = droot, !.start_time = now]

\* get_total_files (lines 76-79): every list entry is globbed, a repeated
\* entry is counted again
RECURSIVE get_total_files(_, _)
get_total_files(f, paths) ==
  IF paths = <<>> THEN 0
  ELSE Cardinality(Rglob(f, Head(paths))) + get_total_files(f, Tail(paths))

\* an exception raised at a line of run() leaves run(): nothing after the
\* raising statement is executed
Raise(t, e, line) == [t EXCEPT !.pc = "raised", !.err = e, !.line = line]

\* lines 93-97
RunBegin(w) ==
  /\ app = "running"
  /\ threads[w].pc = "start"
  /\ LET t == threads[w]
         total == get_total_files(fs, t.source_paths)
     IN  IF total = 0
         THEN /\ threads' = [threads EXCEPT ![w] =
                   Raise([t EXCEPT !.total_files = total, !.copied_files = CopiedStart],
                         "ZeroDivisionError", 95)]
              /\ UNCHANGED clock
         ELSE \E now \in Now :
                /\ clock' = now
                /\ threads' = [threads EXCEPT ![w] =
                     [t EXCEPT !.total_files = total,
                               !.copied_files = CopiedStart,
                               !.transfer_percentage = FractionDone(CopiedStart, total),
                               !.start_time = now,
                               !.k = 1,
                               !.pc = "for_source"]]
  /\ UNCHANGED <<fs, fs0, copy_thread, signals, size_label, list_widget, source_edit,
                 destination_edit, app, temp_file, read_result, size_bytes, size_text>>

\* the loop of line 99 has another source folder to process
HasNextSource(t) == t.k <= Len(t.source_paths)

\* lines 99-116: the head of the loop over the source folders
NextSource(w) ==
  /\ app = "running"
  /\ threads[w].pc = "for_source"
  /\ HasNextSource(threads[w])
  /\ LET t == threads[w]
         source == t.source_paths[t.k]
         destination == t.destination_root \o RelativeTo(source, t.source_root)
     IN  IF ~IsRelativeTo(source, t.source_root)
         THEN /\ threads' = [threads EXCEPT ![w] = Raise(t, "ValueError", 105)]
              /\ UNCHANGED <<fs, clock>>
         ELSE IF MkdirError(fs, destination) # "none"
         THEN /\ threads' = [threads EXCEPT ![w] = Raise(t, MkdirError(fs, destination), 107)]
              /\ UNCHANGED <<fs, clock>>
         ELSE \E now \in Now :
                /\ fs' = Mkdir(fs, destination)
                /\ clock' = now
                /\ threads' = [threads EXCEPT ![w] =
                     [t EXCEPT !.files = Sorted(Rglob(fs', source)),
                               !.current_time = now,
                               !.i = 1,
                               !.pc = "for_file"]]
  /\ UNCHANGED <<fs0, copy_thread, signals, size_label, list_widget, source_edit,
                 destination_edit, app, temp_file, read_result, size_bytes, size_text>>

\* the loop of line 118 has another file to copy
HasNextFile(t) == t.i <= Len(t.files)

\* lines 118-128: destination path, time estimate and log line of one file
NextFile(w) ==
  /\ app = "running"
  /\ threads[w].pc = "for_file"
  /\ HasNextFile(threads[w])
  /\ LET t == threads[w]
         f == t.files[t.i]
         time_spent == t.current_time - t.start_time
         left == TimeLeft(time_spent, t.transfer_percentage)
     IN  threads' = [threads EXCEPT ![w] =
           [t EXCEPT !.f = f,
                     !.d = t.destination_root \o RelativeTo(f, t.source_root),
                     !.time_left = left,
                     !.eta = format_seconds(left),
                     !.pc = "copy2"]]
  /\ UNCHANGED <<fs, fs0, clock, copy_thread, signals, size_label, list_widget,
                 source_edit, destination_edit, app, temp_file, read_result,
                 size_bytes, size_text>>

\* a run() that caught the exception of shutil.copy2 and went on with the
\* next file
OnCopyError_skip(t, e) ==
  [t EXCEPT !.err = e, !.line = 131, !.i = @ + 1, !.pc = "for_file"]

\* what run() does when shutil.copy2 raises: nothing catches it
OnCopyError(t, e) == Raise(t, e, 131)

\* lines 131-139: shutil.copy2 copies content and metadata and the counters
\* are updated; or the call raises: on what the paths are, or because the
\* filesystem reports an error (permission: nothing is written; space: a
\* partial destination file stays behind)
Copy2Step(w) ==
  /\ app = "running"
  /\ threads[w].pc = "copy2"
  /\ LET t == threads[w]
         e == Copy2Error(fs, t.f, t.d)
         target == CopyTarget(fs, t.f, t.d)
     IN  IF e # "none"
         THEN /\ threads' = [threads EXCEPT ![w] = OnCopyError(t, e)]
              /\ UNCHANGED <<fs, clock>>
         ELSE \/ /\ threads' = [threads EXCEPT ![w] =
                       OnCopyError([t EXCEPT !.faulted = TRUE], "OSError")]
                 /\ fs' \in {fs, [q \in DOMAIN fs \cup {target} |->
                                    IF q = target THEN FileNode(0) ELSE fs[q]]}
                 /\ UNCHANGED clock
              \/ \E now \in Now :
                   /\ fs' = Copy2(fs, t.f, t.d)
                   /\ clock' = now
                   /\ threads' = [threads EXCEPT ![w] =
                        [t EXCEPT !.transfer_percentage =
                                     PercentDone(t.copied_files, t.total_files),
                                  !.current_time = now,
                                  !.copied_files = @ + CopiedUnit,
                                  !.copies = Append(@, [k |-> t.k, f |-> t.f, d |-> target,
                                                        data |-> fs[t.f].data]),
                                  !.i = @ + 1,
                                  !.pc = "for_file"]]
  /\ UNCHANGED <<fs0, copy_thread, signals, size_label, list_widget,
                 source_edit, destination_edit, app, temp_file, read_result,
                 size_bytes, size_text>>

\* line 142: after the last file of the folder, the folder is renamed; onto
\* an existing empty directory POSIX replaces it and Windows raises
RenameSource(w) ==
  /\ app = "running"
  /\ threads[w].pc = "for_file"
  /\ ~HasNextFile(threads[w])
  /\ LET t == threads[w]
         source == t.source_paths[t.k]
         target == RenameTarget(source)
     IN  \E replace \in BOOLEAN :
           IF RenameError(fs, source, target, replace) # "none"
           THEN /\ threads' = [threads EXCEPT ![w] =
                     Raise(t, RenameError(fs, source, target, replace), 142)]
                /\ UNCHANGED fs
           ELSE /\ fs' = Rename(fs, source, target)
                /\ threads' = [threads EXCEPT ![w] =
                     [t EXCEPT !.renames = Append(@, [k |-> t.k, from |-> source,
                                                      to |-> target]),
                               !.k = @ + 1,
                               !.pc = "for_source"]]
  /\ UNCHANGED <<fs0, clock, copy_thread, signals, size_label, list_widget,
                 source_edit, destination_edit, app, temp_file, read_result,
                 size_bytes, size_text>>

\* a run() that emitted the percentage reached before the final 100
CompletionValues_percentage(t) ==
  <<t.transfer_percentage.num \div t.transfer_percentage.den, 100>>

\* the values run() hands to progress_update.emit after the loop (line 144;
\* the emit of line 102 is commented out)
CompletionValues(t) == <<100>>

\* line 144: the signal is queued for the GUI thread
EmitCompletion(w) ==
  /\ app = "running"
  /\ threads[w].pc = "for_source"
  /\ ~HasNextSource(threads[w])
  /\ signals' = signals \o [j \in 1..Len(CompletionValues(threads[w])) |->
                   [w |-> w, value |-> CompletionValues(threads[w])[j]]]
  /\ threads' = [threads EXCEPT ![w] =
       [@ EXCEPT !.emitted = @ \o CompletionValues(threads[w]), !.pc = "done"]]
  /\ UNCHANGED <<fs, fs0, clock, copy_thread, size_label, list_widget,
                 source_edit, destination_edit, app, temp_file, read_result,
                 size_bytes, size_text>>

\* MainWidget.update_progress (lines 239-240), run by the GUI thread for a
\* queued signal
update_progress ==
  /\ app = "running"
  /\ signals # <<>>
  /\ size_label' = Head(signals).value
  /\ signals' = Tail(signals)
  /\ UNCHANGED <<fs, fs0, clock, threads, copy_thread, list_widget,
                 source_edit, destination_edit, app, temp_file, read_result,
                 size_bytes, size_text>>

----------------------------------------------------------------------------
(* The settings temp file *)

\* the texts the two line edits can hold, and the paths Path(text) makes of them
RootTexts == {"L", "D"}
PathOf(text) == IF text = "L" THEN pL ELSE pD

\* a dict is the set of its <<key, value>> items
Get(dict, key, default) ==
  IF \E it \in dict : it[1] = key THEN (CHOOSE it \in dict : it[1] = key)[2] ELSE default

\* json.dump of the two-key dict (line 63): the chunks written, in order
Dump(data) ==
  <<"{", "source_root", ": ", Get(data, "source_root", ""),
    ", ", "destination_root", ": ", Get(data, "destination_root", ""), "}">>

\* json.load (line 49) accepts a complete document only
Parsable(text) ==
  \/ text = <<"{", "}">>
  \/ /\ Len(text) = 9
     /\ text[1] = "{" /\ text[2] = "source_root" /\ text[3] = ": " /\ text[5] = ", "
     /\ text[6] = "destination_root" /\ text[7] = ": " /\ text[9] = "}"
Load(text) ==
  IF Len(text) = 9
  THEN {<<"source_root", text[4]>>, <<"destination_root", text[8]>>}
  ELSE {}

\* read_temp_file (lines 46-50): the dict read, {} when there is no file, or
\* the JSONDecodeError that json.load raises
read_temp_file(file) ==
  IF ~file.exists THEN [status |-> "ok", value |-> {}, file |-> file]
  ELSE IF ~Parsable(file.text)
       THEN [status |-> "JSONDecodeError", value |-> {}, file |-> file]
  ELSE [status |-> "ok", value |-> Load(file.text), file |-> file]

\* write_temp_file (lines 61-63): open('w') creates or truncates the file,
\* json.dump writes the chunks. cut is the number of chunks on disk when the
\* process stops: all of them when the call returns.
write_temp_file(data, cut) == [exists |-> TRUE, text |-> SubSeq(Dump(data), 1, cut)]

\* save_roots_to_temp_file (lines 220-223)
RootsData(src, dst) == {<<"source_root", src>>, <<"destination_root", dst>>}

----------------------------------------------------------------------------
(* MainWidget *)

\* main() and MainWidget.initUI (lines 186-194, 267-274): the list is empty
\* and the line edits are filled from the temp file; an exception of
\* read_temp_file ends the process
Launch ==
  /\ app = "off"
  /\ read_result' = read_temp_file(temp_file)
  /\ list_widget' = <<>>
  /\ IF read_result'.status = "ok"
     THEN /\ app' = "running"
          /\ source_edit' = Get(read_result'.value, "source_root", "L")
          /\ destination_edit' = Get(read_result'.value, "destination_root", "D")
     ELSE /\ app' = "crashed"
          /\ UNCHANGED <<source_edit, destination_edit>>
  /\ UNCHANGED <<fs, fs0, clock, threads, copy_thread, signals, size_label,
                 temp_file, size_bytes, size_text>>

\* the user starts the program again after it ended with an error
Relaunch ==
  /\ app = "crashed"
  /\ app' = "off"
  /\ UNCHANGED <<fs, fs0, clock, threads, copy_thread, signals, size_label,
                 list_widget, source_edit, destination_edit, temp_file, read_result,
                 size_bytes, size_text>>

\* the window is closed: app.exec_() returns and sys.exit ends the process
\* (line 274)
Quit ==
  /\ app = "running"
  /\ app' = "off"
  /\ UNCHANGED <<fs, fs0, clock, threads, copy_thread, signals, size_label,
                 list_widget, source_edit, destination_edit, temp_file, read_result,
                 size_bytes, size_text>>

\* textChanged of the source line edit (lines 192, 220-223)
EditSource ==
  /\ app = "running"
  /\ \E text \in RootTexts \ {source_edit} :
       /\ source_edit' = text
       /\ temp_file' = write_temp_file(RootsData(text, destination_edit),
                                       Len(Dump(RootsData(text, destination_edit))))
  /\ UNCHANGED <<fs, fs0, clock, threads, copy_thread, signals, size_label,
                 list_widget, destination_edit, app, read_result, size_bytes,
                 size_text>>

\* textChanged of the destination line edit (lines 194, 220-223)
EditDestination ==
  /\ app = "running"
  /\ \E text \in RootTexts \ {destination_edit} :
       /\ destination_edit' = text
       /\ temp_file' = write_temp_file(RootsData(source_edit, text),
                                       Len(Dump(RootsData(source_edit, text))))
  /\ UNCHANGED <<fs, fs0, clock, threads, copy_thread, signals, size_label,
                 list_widget, source_edit, app, read_result, size_bytes, size_text>>

\* the process is stopped while write_temp_file, called for an edit of one of
\* the two fields, has opened the file and not yet written every chunk
InterruptedWrite ==
  /\ app = "running"
  /\ \E text \in RootTexts, field \in {"source", "destination"} :
       LET data == IF field = "source" THEN RootsData(text, destination_edit)
                   ELSE RootsData(source_edit, text)
       IN  \E cut \in 0..(Len(Dump(data)) - 1) :
             temp_file' = write_temp_file(data, cut)
  /\ app' = "off"
  /\ UNCHANGED <<fs, fs0, clock, threads, copy_thread, signals, size_label,
                 list_widget, source_edit, destination_edit, read_result,
                 size_bytes, size_text>>

\* what is dragged onto the window: a folder and a file
DropUrls == {pC, pC \o <<n_dx>>}

\* dropEvent (lines 251-256): the dropped paths that are directories are
\* appended to the list
dropEvent ==
  /\ app = "running"
  /\ \E urls \in SeqsUpTo(DropUrls, 2) :
       LET folders == SelectSeq(urls, LAMBDA u : IsDir(fs, u)) IN
       /\ urls # <<>>
       /\ Len(list_widget) + Len(folders) <= MaxFolders
       /\ list_widget' = list_widget \o folders
  /\ UNCHANGED <<fs, fs0, clock, threads, copy_thread, signals, size_label,
                 source_edit, destination_edit, app, temp_file, read_result,
                 size_bytes, size_text>>

\* start_threads (lines 225-233): nothing looks at the thread of an earlier
\* click; a new CopyThread is built from the list and the roots and started
start_threads ==
  /\ app = "running"
  /\ \E w \in Workers :
       /\ threads[w].pc = "none"
       /\ \A v \in Workers : v < w => threads[v].pc # "none"
       /\ \E now \in Now :
            /\ clock' = now
            /\ threads' = [threads EXCEPT ![w] =
                 NewThread(list_widget, PathOf(source_edit),
                           PathOf(destination_edit), now)]
       /\ copy_thread' = w
  /\ UNCHANGED <<fs, fs0, signals, size_label, list_widget, source_edit,
                 destination_edit, app, temp_file, read_result, size_bytes, size_text>>

----------------------------------------------------------------------------
(* format_size *)

size_names == <<"B", "KB", "MB", "GB", "TB", "PB", "EB", "ZB", "YB">>

\* int.bit_length
RECURSIVE bit_length(_)
bit_length(n) == IF n = 0 THEN 0 ELSE 1 + bit_length(n \div 2)

Min(a, b) == IF a <= b THEN a ELSE b

\* format_size (lines 165-169): i is first the exponent, then the quotient,
\* and the quotient is what is formatted and what indexes size_names
format_size(n) ==
  IF n = 0 THEN [status |-> "ok", tenths |-> 0, decimals |-> 0, unit |-> "B"]
  ELSE LET e == Min(bit_length(n) \div 10, 8)
           i == n \div (1024 ^ e)
       IN  IF i + 1 > Len(size_names)
           THEN [status |-> "IndexError", tenths |-> 0, decimals |-> 0, unit |-> ""]
           ELSE [status |-> "ok", tenths |-> 10 * i, decimals |-> 1,
                 unit |-> size_names[i + 1]]

FormatSize ==
  /\ size_text = NoText
  /\ size_text' = format_size(size_bytes)
  /\ UNCHANGED <<fs, fs0, clock, threads, copy_thread, signals, size_label,
                 list_widget, source_edit, destination_edit, app, temp_file,
                 read_result, size_bytes>>

----------------------------------------------------------------------------
(* Initial states *)

\* The trees a job starts from: under the source root L the folders A, A/B
\* and C with two files in A and a file without extension in C; optionally a
\* file in A/B, a file with extension in C, a directory A/v.1 whose name holds
\* a dot, the mirrored directories already present under the destination root
\* D, and an empty directory _C beside C.
TreeEntries(hasc, hasd, hasv, pre, und) ==
  {<<pL, DirNode>>, <<pD, DirNode>>, <<pA, DirNode>>, <<pAB, DirNode>>,
   <<pC, DirNode>>, <<pA \o <<n_ax>>, FileNode(1)>>, <<pA \o <<n_bx>>, FileNode(2)>>,
   <<pC \o <<n_n>>, FileNode(5)>>}
  \cup (IF hasc THEN {<<pAB \o <<n_cx>>, FileNode(3)>>} ELSE {})
  \cup (IF hasd THEN {<<pC \o <<n_dx>>, FileNode(4)>>} ELSE {})
  \cup (IF hasv THEN {<<pAV, DirNode>>} ELSE {})
  \cup (IF pre THEN {<<<<nD, nA>>, DirNode>>, <<<<nD, nA, nB>>, DirNode>>} ELSE {})
  \cup (IF und THEN {<<p_C, DirNode>>} ELSE {})

TreeOf(E) == [p \in {e[1] : e \in E} |-> (CHOOSE e \in E : e[1] = p)[2]]

InitialTrees ==
  {TreeOf(TreeEntries(hasc, hasd, hasv, pre, und)) :
     hasc \in BOOLEAN, hasd \in BOOLEAN, hasv \in BOOLEAN, pre \in BOOLEAN,
     und \in BOOLEAN}

\* the parts of the state a specification does not use keep these values
GuiIdle ==
  /\ list_widget = <<>>
  /\ source_edit = "L"
  /\ destination_edit = "D"
SettingsIdle ==
  /\ app = "running"
  /\ temp_file = NoFile
  /\ read_result = NoRead
FormatIdle ==
  /\ size_bytes = 0
  /\ size_text = NoText

\* One job: start_threads has built a CopyThread from the list and the two
\* roots and started it.
Init ==
  /\ fs \in InitialTrees
  /\ fs0 = fs
  /\ clock = 0
  /\ \E paths \in SeqsUpTo(SourceDirs, MaxFolders) :
       /\ list_widget = paths
       /\ threads = [w \in Workers |->
                       IF w = 1 THEN NewThread(paths, PathOf("L"), PathOf("D"), 0) ELSE NoThread]
  /\ copy_thread = 1
  /\ signals = <<>>
  /\ size_label = 0
  /\ source_edit = "L"
  /\ destination_edit = "D"
  /\ SettingsIdle
  /\ FormatIdle

Next ==
  \/ \E w \in Workers : RunBegin(w)
  \/ \E w \in Workers : NextSource(w)
  \/ \E w \in Workers : NextFile(w)
  \/ \E w \in Workers : Copy2Step(w)
  \/ \E w \in Workers : RenameSource(w)
  \/ \E w \in Workers : EmitCompletion(w)
  \/ update_progress

Spec == Init /\ [][Next]_vars

----------------------------------------------------------------------------
(* Properties of one job *)

Started == {w \in Workers : threads[w].pc # "none"}
Terminal(t) == t.pc \in {"done", "raised"}

\* the entries below folder p that the pattern matches and that are files
MatchedFiles(f, p) == {q \in Rglob(f, p) : IsFile(f, q)}

\* where the job is to put a file of the source tree
Mirror(t, q) == t.destination_root \o RelativeTo(q, t.source_root)

\* the precondition of C1: distinct source folders, each an existing
\* directory under the source root holding a matched file, and no error
\* reported by the filesystem
C1_Pre(t) ==
  /\ \A a, b \in 1..Len(t.source_paths) : a # b => t.source_paths[a] # t.source_paths[b]
  /\ \A a \in 1..Len(t.source_paths) :
       /\ IsDir(fs0, t.source_paths[a])
       /\ IsRelativeTo(t.source_paths[a], t.source_root)
       /\ MatchedFiles(fs0, t.source_paths[a]) # {}
  /\ ~t.faulted

\* C1: in a job that meets C1_Pre, the directory a copy writes into exists
\* when the copy is attempted, and when run() has ended every matched file at
\* any depth below every source folder is at its mirrored place under the
\* destination root with the same content.
C1_RecursiveCopyComplete ==
  \A w \in Started :
    LET t == threads[w] IN
    C1_Pre(t) =>
      /\ t.pc = "copy2" => IsDir(fs, Parent(t.d))
      /\ Terminal(t) =>
           \A a \in 1..Len(t.source_paths) :
             \A q \in MatchedFiles(fs0, t.source_paths[a]) :
               /\ IsFile(fs, Mirror(t, q))
               /\ fs[Mirror(t, q)].data = fs0[q].data

\* C2: when run() has reached the completion signal, every folder of the
\* list is gone from its original path, and beside that path the directory
\* '_' + name exists and holds the files the folder held.
C2_EveryFolderRenamed ==
  \A w \in Started :
    LET t == threads[w] IN
    t.pc = "done" =>
      \A a \in 1..Len(t.source_paths) :
        LET src == t.source_paths[a] IN
        /\ ~Exists(fs, src)
        /\ IsDir(fs, RenameTarget(src))
        /\ \A q \in DOMAIN fs0 :
             (Parent(q) = src /\ IsFile(fs0, q)) =>
               /\ IsFile(fs, RenameTarget(src) \o <<Name(q)>>)
               /\ fs[RenameTarget(src) \o <<Name(q)>>].data = fs0[q].data

\* where the entry at path p is after the renames r[from], r[from+1], ...
RECURSIVE Relocated(_, _, _)
Relocated(p, r, from) ==
  IF from > Len(r) THEN p
  ELSE IF IsPrefix(r[from].from, p)
       THEN Relocated(r[from].to \o SubSeq(p, Len(r[from].from) + 1, Len(p)), r, from + 1)
       ELSE Relocated(p, r, from + 1)

\* a copy of a file of folder t.k has raised
CopyRaised(t) == t.err # "none" /\ t.line = 131

C3_State ==
  \A w \in Started :
    LET t == threads[w] IN
    CopyRaised(t) =>
      /\ t.pc = "raised"
      /\ IsDir(fs, t.source_paths[t.k])
      /\ Len(t.renames) = t.k - 1
      /\ \A c \in 1..Len(t.copies) :
           /\ t.copies[c].k <= t.k
           /\ IsFile(fs, t.copies[c].d)
           /\ fs[t.copies[c].d].data = t.copies[c].data
      /\ \A j \in 1..(t.k - 1) :
           /\ t.renames[j].k = j
           /\ t.renames[j].from = t.source_paths[j]
           /\ ~Exists(fs, t.source_paths[j])
           /\ LET now == Relocated(t.renames[j].to, t.renames, j + 1) IN
              /\ IsDir(fs, now)
              /\ Name(now) = <<Underscore>> \o Name(t.source_paths[j])

C3_Stops ==
  \A w \in Workers :
    CopyRaised(threads[w]) => (threads'[w] = threads[w] /\ fs' = fs)

\* C3: once a copy of a file of folder k has raised, run() is over and does
\* nothing more: folder k is still there under its name, the renames done are
\* those of folders 1..k-1, each of which is gone from its path and is a
\* directory named '_' + name, no copy of a later folder was made, and every
\* file copied before is in the destination with the content copied.
C3_AbortKeepsPartialWork == [](C3_State) /\ [][C3_Stops]_vars

C3_Witness ==
  \E w \in Started :
    /\ CopyRaised(threads[w])
    /\ threads[w].k = 2
    /\ Len(threads[w].renames) = 1
    /\ Len(threads[w].copies) >= 2

\* C4: a job with total_files = 0 raises no error: run() ends with the
\* completion signal 100 emitted.
C4_ZeroFileJobSucceeds ==
  \A w \in Started :
    LET t == threads[w] IN
    (t.pc # "start" /\ t.total_files = 0) =>
      /\ t.err = "none"
      /\ Terminal(t) => t.emitted = <<100>>

\* C5: the copies of a job come folder by folder in list order and, within a
\* folder, in ascending path order: the list enumerated for the folder at hand
\* is exactly its matched entries in ascending order, the copies of that
\* folder are the first entries of that list, and a copy of folder k is made
\* only when folders 1..k-1 have been renamed.
C5_ProcessingOrder ==
  \A w \in Started :
    LET t == threads[w] IN
    /\ \A a, b \in 1..Len(t.copies) :
         a < b =>
           /\ t.copies[a].k <= t.copies[b].k
           /\ t.copies[a].k = t.copies[b].k => PathLess(t.copies[a].f, t.copies[b].f)
    /\ \A c \in 1..Len(t.copies) :
         /\ t.copies[c].k \in 1..Len(t.source_paths)
         /\ Len(t.renames) >= t.copies[c].k - 1
         /\ IsPrefix(t.source_paths[t.copies[c].k], t.copies[c].f)
    /\ \A j \in 1..Len(t.renames) : t.renames[j].k = j
    /\ t.pc \in {"for_file", "copy2"} =>
         /\ \A a, b \in 1..Len(t.files) : a < b => PathLess(t.files[a], t.files[b])
         /\ {t.files[a] : a \in 1..Len(t.files)} = Rglob(fs, t.source_paths[t.k])
         /\ LET mine == SelectSeq(t.copies, LAMBDA c : c.k = t.k) IN
            /\ Len(mine) = t.i - 1
            /\ \A a \in 1..Len(mine) : mine[a].f = t.files[a]

C5_Witness ==
  \E w \in Started :
    LET t == threads[w] IN
    /\ t.pc = "done"
    /\ Len(t.copies) >= 3
    /\ t.copies[1].k = 1
    /\ t.copies[Len(t.copies)].k = 2
    /\ t.copies[2].k = t.copies[1].k

\* C6: run() emits progress_update at most once, with the value 100, and
\* only when every source folder has had its files copied and has been
\* renamed; a run that ended with an error has emitted nothing, and the GUI
\* handler is given no other value.
C6_CompletionSignal ==
  /\ \A w \in Started :
       LET t == threads[w] IN
       /\ Len(t.emitted) <= 1
       /\ \A e \in 1..Len(t.emitted) : t.emitted[e] = 100
       /\ t.emitted # <<>> =>
            /\ t.pc = "done"
            /\ Len(t.renames) = Len(t.source_paths)
            /\ t.copied_files = CopiedStart + CopiedUnit * t.total_files
       /\ t.err # "none" => t.emitted = <<>>
  /\ \A e \in 1..Len(signals) : signals[e].value = 100
  /\ size_label \in {0, 100}

C6_Witness ==
  /\ size_label = 100
  /\ \E w \in Started :
       /\ threads[w].emitted = <<100>>
       /\ Len(threads[w].source_paths) = 2
       /\ Len(threads[w].copies) >= 2

\* C10: the estimate logged before a copy divides by a positive
\* transfer_percentage and is not negative, so that the HH:MM:SS fields have
\* hours >= 0 and minutes and seconds in 0..59.
C10_EtaWellFormed ==
  \A w \in Started :
    LET t == threads[w] IN
    (t.pc = "copy2" /\ t.total_files > 0 /\ IsFile(fs, t.f)) =>
      /\ t.transfer_percentage.num > 0
      /\ t.transfer_percentage.den > 0
      /\ t.time_left >= 0
      /\ t.eta.hours >= 0
      /\ t.eta.minutes \in 0..59
      /\ t.eta.seconds \in 0..59

----------------------------------------------------------------------------
(* The window with its Start button *)

InitGui ==
  /\ fs = TreeOf(TreeEntries(FALSE, TRUE, FALSE, FALSE, FALSE))
  /\ fs0 = fs
  /\ clock = 0
  /\ threads = [w \in Workers |-> NoThread]
  /\ copy_thread = 0
  /\ signals = <<>>
  /\ size_label = 0
  /\ GuiIdle
  /\ SettingsIdle
  /\ FormatIdle

NextGui ==
  \/ dropEvent
  \/ EditSource
  \/ EditDestination
  \/ start_threads
  \/ \E w \in Workers : RunBegin(w)
  \/ \E w \in Workers : NextSource(w)
  \/ \E w \in Workers : NextFile(w)
  \/ \E w \in Workers : Copy2Step(w)
  \/ \E w \in Workers : RenameSource(w)
  \/ \E w \in Workers : EmitCompletion(w)
  \/ update_progress

SpecGui == InitGui /\ [][NextGui]_vars

\* a worker operates on the trees while it is in the loop of line 99; it has
\* a file copy in progress while it is at line 131
Operating == {w \in Workers : threads[w].pc \in {"for_source", "for_file", "copy2"}}
Copying == {w \in Workers : threads[w].pc = "copy2"}

\* C7: whatever the user does, at most one file copy is in progress and at
\* most one copy worker is operating on the trees.
C7_OneWorkerOneCopy ==
  /\ Cardinality(Copying) <= 1
  /\ Cardinality(Operating) <= 1

----------------------------------------------------------------------------
(* The settings file over the runs of the program *)

\* what the temp directory can hold when the program starts: no file, or the
\* first chunks of a document written earlier (all of them: a complete
\* record), or the empty object
InitialFiles ==
  {NoFile, [exists |-> TRUE, text |-> <<"{", "}">>]}
  \cup {write_temp_file(RootsData(a, b), cut) : a \in RootTexts, b \in RootTexts,
                                                cut \in 0..9}

InitSettings ==
  /\ fs = TreeOf(TreeEntries(FALSE, TRUE, FALSE, FALSE, FALSE))
  /\ fs0 = fs
  /\ clock = 0
  /\ threads = [w \in Workers |-> NoThread]
  /\ copy_thread = 0
  /\ signals = <<>>
  /\ size_label = 0
  /\ GuiIdle
  /\ app = "off"
  /\ temp_file \in InitialFiles
  /\ read_result = NoRead
  /\ FormatIdle

NextSettings ==
  \/ Launch
  \/ Relaunch
  \/ Quit
  \/ EditSource
  \/ EditDestination
  \/ InterruptedWrite

SpecSettings == InitSettings /\ [][NextSettings]_vars

\* C8: read_temp_file raises for no state of the file: it returns a record,
\* the empty one for a file that is absent or cannot be parsed, and the
\* record written for a file that write_temp_file has written completely.
C8_ReadNeverFails ==
  read_result.status # "none" =>
    /\ read_result.status = "ok"
    /\ (~read_result.file.exists \/ ~Parsable(read_result.file.text)) =>
         read_result.value = {}
    /\ \A a, b \in RootTexts :
         read_result.file = write_temp_file(RootsData(a, b), Len(Dump(RootsData(a, b))))
           => read_result.value = RootsData(a, b)

----------------------------------------------------------------------------
(* format_size over the byte counts *)

InitFmt ==
  /\ fs = TreeOf(TreeEntries(FALSE, TRUE, FALSE, FALSE, FALSE))
  /\ fs0 = fs
  /\ clock = 0
  /\ threads = [w \in Workers |-> NoThread]
  /\ copy_thread = 0
  /\ signals = <<>>
  /\ size_label = 0
  /\ GuiIdle
  /\ SettingsIdle
  /\ size_bytes \in 0..MaxBytes
  /\ size_text = NoText

NextFmt == FormatSize

SpecFmt == InitFmt /\ [][NextFmt]_vars

\* the unit index of the reference formatter: the largest k <= 8 with
\* 1024^k <= n
RECURSIVE UnitIndex(_, _)
UnitIndex(n, k) == IF k < 8 /\ 1024 ^ (k + 1) <= n THEN UnitIndex(n, k + 1) ELSE k

\* a / b in tenths, rounded to the nearest tenth, a tie to the even digit
RoundTenths(a, b) ==
  LET q == (10 * a) \div b
      r2 == 2 * ((10 * a) % b)
  IN  IF r2 > b \/ (r2 = b /\ q % 2 = 1) THEN q + 1 ELSE q

\* the reference formatter: n / 1024^k to one decimal place and the k-th unit
ReferenceSize(n) ==
  IF n = 0 THEN [status |-> "ok", tenths |-> 0, decimals |-> 0, unit |-> "B"]
  ELSE [status |-> "ok", tenths |-> RoundTenths(n, 1024 ^ UnitIndex(n, 0)),
        decimals |-> 1, unit |-> size_names[UnitIndex(n, 0) + 1]]

\* C9: for every byte count format_size returns what the reference
\* formatter returns and raises nothing.
C9_FormatSizeMatchesReference ==
  size_text # NoText => size_text = ReferenceSize(size_bytes)

====
